---- MODULE Spec2Model ----
(***************************************************************************)
(* Document lifecycle of the byteworks dashboard backend: contacts, quotes *)
(* and invoices kept in PostgreSQL behind one SQLAlchemy session per       *)
(* request (app/core/database.py), and the route handlers of               *)
(* app/api/routes/quotes.py and app/api/routes/invoices.py.                *)
(*                                                                         *)
(* db   is the committed content of the database,                          *)
(* sess is what the session of the request in flight sees (its flushed,    *)
(*      not yet committed writes included),                                *)
(* pc   is the position of the request in flight, req its local variables, *)
(* sent is the set of notifications the request has emitted,               *)
(* now  is the clock, in days.                                             *)
(*                                                                         *)
(* Money is counted in units of 0.00001 (Cent units make 0.01): request    *)
(* bodies carry floats with any number of decimals, the NUMERIC(12,2)      *)
(* columns keep two.                                                       *)
(***************************************************************************)
EXTENDS Integers, Sequences, FiniteSets, TLC

VARIABLES db, sess, pc, req, sent, now

vars == <<db, sess, pc, req, sent, now>>

\* ------------------------------------------------------------------ bounds

MaxContacts == 1
MaxQuotes == 1
MaxInvoices == 2
MaxDay == 8

\* Ids are never reused: the invoices table holds at most MaxInvoices rows, and one
\* more id than that is ever issued.
MaxInvoiceIds == MaxInvoices + 1

\* The clock advances by a week or by eight days at a time.
DaySteps == {7, 8}

\* --------------------------------------------------------- program constants

Cent == 1000
QUOTE_VALID_DAYS == 15
DEPOSIT_DUE_DAYS == 3
NEXT_DUE_DAYS == 33
REMINDER_MIN_DAYS == 7
REMINDER_MAX_DAYS == 8

NULL == 0 - 1
NoMethod == "none"

QuoteStatus == {"draft", "sent", "accepted", "rejected", "expired"}
InvoiceStatus == {"pending", "paid", "overdue", "cancelled"}
ContactStatus == {"NEW", "drafting", "quoted", "CONTACTED", "QUALIFIED", "CONVERTED", "LOST"}

\* ------------------------------------------------------------ request inputs

\* 2.00 ; 2 x 1.00 + 1 x 1.004
QuoteItemChoices ==
    { << [quantity |-> 1, unit_price |-> 200 * Cent] >>,
      << [quantity |-> 2, unit_price |-> 100 * Cent],
         [quantity |-> 1, unit_price |-> 100 * Cent + 400] >> }

\* 0 ; 0.50
DiscountChoices == {0, 50 * Cent}

\* 0 ; 0.184
TaxChoices == {0, 18 * Cent + 400}

\* the price list of the quotes whose amounts do not matter
LifeItemChoices == { << [quantity |-> 1, unit_price |-> 200 * Cent] >> }

\* InvoiceCreate.items holds at least one item
InvoiceItemChoices ==
    { << [quantity |-> 1, unit_price |-> 100 * Cent] >> }

\* InvoiceUpdate.items may be empty
UpdateItemChoices ==
    { << >>, << [quantity |-> 1, unit_price |-> 100 * Cent] >> }

TaxRateChoices == {18}

\* QuoteUpdate.valid_until, in days from the day of the request: past, today, and
\* around the days on which the sweep reminds
ValidUntilOffsets == {0 - 1, 0, 6, 7, 8, 9}

\* InvoiceMarkPaid.payment_method: None, or a name
PaymentMethods == {"none", "wire"}

\* --------------------------------------------------------------- arithmetic

RECURSIVE SumItems(_)
SumItems(items) ==
    IF items = << >> THEN 0
    ELSE Head(items).quantity * Head(items).unit_price + SumItems(Tail(items))

Abs(x) == IF x < 0 THEN -x ELSE x

\* PostgreSQL rounds a value to the scale of a NUMERIC(p,2) column, half away from 0
Numeric2(x) ==
    LET r == ((Abs(x) + Cent \div 2) \div Cent) * Cent
    IN  IF x < 0 THEN -r ELSE r

\* ------------------------------------------------------------------- tables

EmptyDb ==
    [ contacts |-> << >>, quotes |-> << >>, invoices |-> << >>,
      nc |-> 0, nq |-> 0, ni |-> 0 ]

Insert(table, id, row) == [ k \in DOMAIN table \cup {id} |-> IF k = id THEN row ELSE table[k] ]

Delete(table, ids) == [ k \in DOMAIN table \ ids |-> table[k] ]

\* process_quote_reminders: the counts of its response
NoneProcessed == [ reminders_sent |-> 0, expired |-> 0 ]

\* The link the receiver of a notification holds, the response to its last download
\* request, and whether the link has been served before; at first there is none
NoDownload ==
    [ kind |-> "none", id |-> 0, link |-> [ path |-> << >>, query |-> << >> ],
      response |-> 0, served |-> FALSE ]

NoReq ==
    [ op |-> "none", id |-> 0, today |-> 0, method |-> NoMethod, pre |-> EmptyDb,
      processed |-> NoneProcessed, download |-> NoDownload ]

Request(op, id, method) ==
    [ op |-> op, id |-> id, today |-> now, method |-> method, pre |-> db,
      processed |-> NoneProcessed, download |-> [ req.download EXCEPT !.response = 0 ] ]

\* A request starts when no other is in flight; its session sees the committed rows.
Idle == pc \in {"idle", "done", "failed"}

\* The last request was op and has ended: Done with its commit, Failed with a rollback
Done(op) == pc = "done" /\ req.op = op

Failed(op) == pc = "failed" /\ req.op = op

Finished(op) == Done(op) \/ Failed(op)

\* ================================================================ signed links
\* core/security.py. Under SpecSigning and SpecDownload the variable now is the wall
\* clock in ticks of 1/TicksPerSecond second, the resolution datetime.now() has below
\* the second; the handlers that count in days read the clock as UnixClock(now).

TicksPerSecond == 2

MaxSeconds == 62

SecondsPerMinute == 60

secret_key == "secret_key"

\* The paths the public download endpoints verify, one string per path segment group
SignedPaths ==
    { <<"/api/public/quote/", "1", "/pdf">>, <<"/api/public/quote/", "2", "/pdf">>,
      <<"/api/public/invoice/", "1", "/pdf">> }

ValidForMinutes == {0, 1}

Digits == <<"0", "1", "2", "3", "4", "5", "6", "7", "8", "9">>

\* str(n) of a non-negative int: its decimal digits
RECURSIVE Decimal(_)
Decimal(n) ==
    IF n < 10 THEN <<Digits[n + 1]>> ELSE Decimal(n \div 10) \o <<Digits[(n % 10) + 1]>>

DigitValue(c) == CHOOSE k \in 0..9 : Digits[k + 1] = c

\* int(s) of a query parameter, as FastAPI parses expires: int
RECURSIVE ParseInt(_)
ParseInt(s) ==
    IF Len(s) = 0 THEN 0
    ELSE ParseInt(SubSeq(s, 1, Len(s) - 1)) * 10 + DigitValue(s[Len(s)])

\* int(datetime.timestamp()): the whole seconds of a clock reading
Timestamp(clock) == clock \div TicksPerSecond

\* f"{path}:{expires}"
Message(path, expires) == path \o <<":">> \o Decimal(expires)

\* hmac.new(key, message, sha256).hexdigest(): equal digests for equal key and message,
\* and taken to differ otherwise
hmac_sha256(key, message) == [ key |-> key, message |-> message ]

\* hmac.compare_digest
compare_digest(a, b) == a = b

\* The query string f"expires={expires}&signature={signature}"
create_signed_query_params(path, valid_for_minutes, clock) ==
    LET expires == Timestamp(clock + valid_for_minutes * SecondsPerMinute * TicksPerSecond)
    IN  [ expires |-> Decimal(expires),
          signature |-> hmac_sha256(secret_key, Message(path, expires)) ]

\* verify_url_signature that turns the link down in its last second
verify_url_signature_expires_early(path, expires, signature, clock) ==
    IF Timestamp(clock) >= expires THEN FALSE
    ELSE compare_digest(signature, hmac_sha256(secret_key, Message(path, expires)))

verify_url_signature(path, expires, signature, clock) ==
    IF Timestamp(clock) > expires THEN FALSE
    ELSE compare_digest(signature, hmac_sha256(secret_key, Message(path, expires)))

DocumentKinds == {"quote", "invoice", "receipt"}

PathPrefix ==
    [ quote |-> "/api/public/quote/", invoice |-> "/api/public/invoice/",
      receipt |-> "/api/public/receipt/" ]

\* f"/api/public/quote/{quote_id}/pdf" and its like
PublicPath(kind, id) == <<PathPrefix[kind]>> \o Decimal(id) \o <<"/pdf">>

\* The first clock reading of a day, for the handlers that count time in days
UnixClock(day) == day * 24 * SecondsPerMinute * SecondsPerMinute * TicksPerSecond

LINK_VALID_MINUTES == 43200

\* The document each notification carries a link to
LinkedDocument ==
    [ quote_sent |-> "quote", conversion |-> "invoice", payment |-> "receipt",
      new_invoice |-> "invoice" ]

\* The notifications whose handler signs the link: send_quote and convert_quote
SignedNotifications == {"quote_sent", "conversion"}

\* pdf_link, invoice_pdf_link, receipt_link, next_invoice_pdf_link: the path and the
\* query string of the URL, << >> for a URL without one
pdf_link(kind, id, clock) ==
    LET path == PublicPath(LinkedDocument[kind], id)
    IN  [ path |-> path,
          query |-> IF kind \in SignedNotifications
                    THEN << create_signed_query_params(path, LINK_VALID_MINUTES, clock) >>
                    ELSE << >> ]

\* ------------------------------------------------------------ get_db (session)

\* The session commits when the handler has returned.
session_commit(d, s) == s

\* The session rolls back when the handler or the commit has raised.
session_rollback(d, s) == d

get_db_commit ==
    /\ pc = "return"
    /\ db' = session_commit(db, sess)
    /\ sess' = db'
    /\ pc' = "done"
    /\ UNCHANGED <<req, sent, now>>

\* A commit with nothing to write opens no transaction and cannot fail.
get_db_rollback ==
    /\ pc = "raise" \/ (pc = "return" /\ sess # db)
    /\ db' = session_rollback(db, sess)
    /\ sess' = db'
    /\ pc' = "failed"
    /\ UNCHANGED <<req, sent, now>>

\* ------------------------------------------------------------------ contacts

create_contact ==
    /\ Idle
    /\ db.nc < MaxContacts
    /\ LET id == db.nc + 1
       IN  sess' = [db EXCEPT !.contacts = Insert(@, id, [status |-> "NEW"]), !.nc = id]
    /\ req' = Request("create_contact", db.nc + 1, NoMethod)
    /\ pc' = "return"
    /\ sent' = {}
    /\ UNCHANGED <<db, now>>

\* -------------------------------------------------------------------- quotes

\* create_quote: the totals of the request, in float arithmetic
quote_totals(items, discount, tax) ==
    LET subtotal == SumItems(items)
    IN  [ subtotal |-> subtotal, total |-> subtotal - discount + tax ]

\* The row of a quote as the INSERT stores it
NewQuote(lead, items, discount, tax, valid_until) ==
    LET t == quote_totals(items, discount, tax)
    IN  [ contact_id |-> lead, lead_id |-> lead, items |-> items,
          subtotal |-> Numeric2(t.subtotal), discount |-> Numeric2(discount),
          tax_rate |-> 0, tax |-> Numeric2(tax), total |-> Numeric2(t.total),
          valid_until |-> valid_until, status |-> "draft",
          reminder_sent |-> FALSE, sent_at |-> NULL ]

create_quote_among(Items, Discounts, Taxes, Quotes) ==
    /\ Idle
    /\ db.nq < Quotes
    /\ \E lead \in 1..MaxContacts, items \in Items,
          discount \in Discounts, tax \in Taxes :
          LET id == db.nq + 1
              q == NewQuote(lead, items, discount, tax, now + 1)
          IN  /\ req' = Request("create_quote", id, NoMethod)
              /\ IF lead \in DOMAIN db.contacts
                 THEN /\ sess' = [db EXCEPT !.quotes = Insert(@, id, q), !.nq = id,
                                            !.contacts[lead].status = "quoted"]
                      /\ db' = sess'
                      /\ pc' = "return"
                 ELSE /\ sess' = db
                      /\ db' = db
                      /\ pc' = "raise"
    /\ sent' = {}
    /\ UNCHANGED now

\* create_quote while fewer than MaxQuotes quotes have been created
create_quote(Items, Discounts, Taxes) == create_quote_among(Items, Discounts, Taxes, MaxQuotes)

\* update_quote: the row after the fields of the request are applied, the total is
\* recomputed in float arithmetic and the UPDATE has stored it
UpdatedQuote(q, fields, items, discount, tax, status, valid_until) ==
    LET subtotal == IF "items" \in fields THEN SumItems(items) ELSE q.subtotal
        disc     == IF "discount" \in fields THEN discount ELSE q.discount
        tx       == IF "tax" \in fields THEN tax ELSE q.tax
        total    == subtotal - disc + tx
    IN  [ q EXCEPT !.items = IF "items" \in fields THEN items ELSE @,
                   !.status = IF "status" \in fields THEN status ELSE @,
                   !.valid_until = IF "valid_until" \in fields THEN valid_until ELSE @,
                   !.subtotal = Numeric2(subtotal),
                   !.discount = Numeric2(disc),
                   !.tax = Numeric2(tx),
                   !.total = Numeric2(total) ]

update_quote(Fields, Items, Discounts, Taxes, Offsets) ==
    /\ Idle
    /\ \E id \in DOMAIN db.quotes, fields \in SUBSET Fields :
       \E items \in IF "items" \in fields THEN Items ELSE { << >> },
          discount \in IF "discount" \in fields THEN Discounts ELSE {0},
          tax \in IF "tax" \in fields THEN Taxes ELSE {0},
          status \in IF "status" \in fields THEN QuoteStatus ELSE {"draft"},
          offset \in IF "valid_until" \in fields THEN Offsets ELSE {0} :
          /\ req' = Request("update_quote", id, NoMethod)
          /\ sess' = [db EXCEPT !.quotes[id] =
                          UpdatedQuote(@, fields, items, discount, tax, status,
                                       now + offset)]
    /\ pc' = "return"
    /\ sent' = {}
    /\ UNCHANGED <<db, now>>

\* A send that leaves the reminder flag as it was
SentQuoteKeepsReminder(q, t) ==
    [ q EXCEPT !.status = "sent", !.sent_at = t, !.valid_until = t + QUOTE_VALID_DAYS ]

\* send_quote: status and timestamps of the quote after the handler's assignments
SentQuote(q, t) ==
    [ q EXCEPT !.status = "sent", !.sent_at = t,
               !.valid_until = t + QUOTE_VALID_DAYS, !.reminder_sent = FALSE ]

\* The notification calls are wrapped in try/except: the message goes out or it
\* does not, and the handler goes on either way.
Notify(kind, id) ==
    { {}, {[kind |-> kind, id |-> id, link |-> pdf_link(kind, id, UnixClock(now))]} }

\* A handler that lets the exception of a failed notification through
notification_raises(out, next) == IF out = {} THEN "raise" ELSE next

\* "except Exception as e: print(...)": after the notification, out or not, the
\* handler goes on to its next statement
after_notification(out, next) == next

send_quote ==
    /\ Idle
    /\ \E id \in DOMAIN db.quotes :
          /\ req' = Request("send", id, NoMethod)
          /\ sess' = [db EXCEPT !.quotes[id] = SentQuote(@, now)]
          /\ sent' \in Notify("quote_sent", id)
    /\ pc' = after_notification(sent', "return")
    /\ UNCHANGED <<db, now>>

delete_quote ==
    /\ Idle
    /\ \E id \in DOMAIN db.quotes :
          /\ req' = Request("delete_quote", id, NoMethod)
          /\ sess' = [db EXCEPT !.quotes = Delete(@, {id})]
    /\ pc' = "return"
    /\ sent' = {}
    /\ UNCHANGED <<db, now>>

\* A sweep that expires a quote on its last day of validity
sweep_branch_expires_today(q, today) ==
    LET days_until_expiry == q.valid_until - today
    IN  IF q.status # "sent" THEN "skip"
        ELSE IF days_until_expiry <= 0 THEN "expire"
        ELSE IF /\ REMINDER_MIN_DAYS <= days_until_expiry
                /\ days_until_expiry <= REMINDER_MAX_DAYS
                /\ ~q.reminder_sent
             THEN "remind"
        ELSE "skip"

\* A sweep that reminds again of a quote it has reminded of
sweep_branch_reminds_again(q, today) ==
    LET days_until_expiry == q.valid_until - today
    IN  IF q.status # "sent" THEN "skip"
        ELSE IF days_until_expiry < 0 THEN "expire"
        ELSE IF /\ REMINDER_MIN_DAYS <= days_until_expiry
                /\ days_until_expiry <= REMINDER_MAX_DAYS
             THEN "remind"
        ELSE "skip"

\* process_quote_reminders: the branch the loop takes for one quote; the loop runs
\* over the quotes selected by status = SENT
sweep_branch(q, today) ==
    LET days_until_expiry == q.valid_until - today
    IN  IF q.status # "sent" THEN "skip"
        ELSE IF days_until_expiry < 0 THEN "expire"
        ELSE IF /\ REMINDER_MIN_DAYS <= days_until_expiry
                /\ days_until_expiry <= REMINDER_MAX_DAYS
                /\ ~q.reminder_sent
             THEN "remind"
        ELSE "skip"

\* process_quote_reminders: one quote after the loop
SweptQuote(q, today) ==
    CASE sweep_branch(q, today) = "expire" -> [q EXCEPT !.status = "expired"]
      [] sweep_branch(q, today) = "remind" -> [q EXCEPT !.reminder_sent = TRUE]
      [] OTHER -> q

\* process_quote_reminders: the counters of the loop
Processed(quotes, today) ==
    [ reminders_sent |->
          Cardinality({ id \in DOMAIN quotes : sweep_branch(quotes[id], today) = "remind" }),
      expired |->
          Cardinality({ id \in DOMAIN quotes : sweep_branch(quotes[id], today) = "expire" }) ]

process_quote_reminders ==
    /\ Idle
    /\ req' = [ Request("sweep", 0, NoMethod) EXCEPT
                   !.processed = Processed(db.quotes, now) ]
    /\ sess' = [db EXCEPT !.quotes = [id \in DOMAIN @ |-> SweptQuote(@[id], now)]]
    /\ pc' = "return"
    /\ sent' = {}
    /\ UNCHANGED <<db, now>>

\* The functions app/services/notifications.py defines
NotificationFunctions ==
    { "get_notification_channel", "notify_new_lead", "notify_new_quote",
      "handle_quote_to_invoice_conversion", "handle_payment_received",
      "send_client_drive_folder" }

\* "from ...services.notifications import <name>" raises ImportError for a name
\* the module does not define
import_raises(name) == name \notin NotificationFunctions

\* DELETE FROM contacts WHERE id = c: quotes.contact_id and invoices.contact_id are
\* ON DELETE CASCADE, quotes.lead_id is ON DELETE SET NULL
DeleteContactRow(s, c) ==
    [ s EXCEPT !.contacts = Delete(s.contacts, {c}),
               !.quotes = [ k \in { q \in DOMAIN s.quotes : s.quotes[q].contact_id # c } |->
                              IF s.quotes[k].lead_id = c
                              THEN [s.quotes[k] EXCEPT !.lead_id = NULL]
                              ELSE s.quotes[k] ],
               !.invoices = Delete(s.invoices,
                              { i \in DOMAIN s.invoices : s.invoices[i].contact_id = c }) ]

\* reject_quote: quote, lead and contact are deleted and flushed; then the handler
\* imports delete_quote_and_lead_in_notion
reject_quote ==
    /\ Idle
    /\ \E id \in DOMAIN db.quotes :
          LET q  == db.quotes[id]
              s1 == [db EXCEPT !.quotes = Delete(@, {id})]
              s2 == IF q.lead_id # NULL THEN DeleteContactRow(s1, q.lead_id) ELSE s1
              s3 == IF q.contact_id # q.lead_id
                    THEN DeleteContactRow(s2, q.contact_id) ELSE s2
          IN  /\ req' = Request("reject", id, NoMethod)
              /\ sess' = s3
              /\ pc' = IF import_raises("delete_quote_and_lead_in_notion")
                       THEN "raise" ELSE "return"
    /\ sent' = {}
    /\ UNCHANGED <<db, now>>

\* db.delete(contact) through the ORM: Contact.quotes and Contact.invoices are loaded
\* (lazy="selectin") and carry no delete cascade, so the unit of work sets the
\* contact_id of each child to NULL before it deletes the contact
HasChildren(s, c) ==
    \/ \E q \in DOMAIN s.quotes : s.quotes[q].contact_id = c
    \/ \E i \in DOMAIN s.invoices : s.invoices[i].contact_id = c

\* delete_contact: contact_id is NOT NULL in quotes and invoices, so the flush of a
\* contact with a quote or an invoice raises IntegrityError
delete_contact ==
    /\ Idle
    /\ \E id \in DOMAIN db.contacts :
          /\ req' = Request("delete_contact", id, NoMethod)
          /\ IF HasChildren(db, id)
             THEN sess' = db /\ pc' = "raise"
             ELSE sess' = DeleteContactRow(db, id) /\ pc' = "return"
    /\ sent' = {}
    /\ UNCHANGED <<db, now>>

\* ------------------------------------------------------------------ invoices

SeqNumber(n) == [kind |-> "seq", day |-> NULL, n |-> n]

DateNumber(day, n) == [kind |-> "date", day |-> day, n |-> n]

Numbers(s) == { s.invoices[i].invoice_number : i \in DOMAIN s.invoices }

\* generate_invoice_number: INV-<count of all invoices + 1>
generate_invoice_number(s) == SeqNumber(Cardinality(DOMAIN s.invoices) + 1)

\* convert_quote: INV-<today>-<count of today's INV-<today>- invoices + 1>
dated_invoice_number(s, today) ==
    DateNumber(today,
        Cardinality({ i \in DOMAIN s.invoices :
            /\ s.invoices[i].invoice_number.kind = "date"
            /\ s.invoices[i].invoice_number.day = today }) + 1)

\* Invoice.calculate_totals, in Decimal arithmetic, as the columns then store it
calculate_totals(inv) ==
    LET subtotal == SumItems(inv.items)
        tax      == (subtotal * inv.tax_rate) \div 100
    IN  [ inv EXCEPT !.subtotal = Numeric2(subtotal),
                     !.tax = Numeric2(tax),
                     !.total = Numeric2(subtotal + tax) ]

\* Invoice.mark_as_paid
mark_as_paid(inv, payment_method, t) ==
    [ inv EXCEPT !.status = "paid", !.paid_at = t,
                 !.payment_method = IF payment_method \in {"none", ""} THEN @
                                    ELSE payment_method ]

\* "[item.model_dump() for item in data.items]": the items of InvoiceCreate and
\* InvoiceUpdate are plain dicts (List[dict]), which have no model_dump; the
\* comprehension raises AttributeError on its first item
model_dump_raises(items) == Len(items) > 0

\* create_invoice: the Invoice(...) of the handler, columns not given at their defaults
NewInvoice(number, contact, items, tax_rate, due_date) ==
    calculate_totals(
      [ invoice_number |-> number, contact_id |-> contact, items |-> items,
        subtotal |-> 0, tax_rate |-> tax_rate, tax |-> 0, total |-> 0,
        status |-> "pending", due_date |-> due_date,
        paid_at |-> NULL, payment_method |-> "none" ])

\* A conversion that recomputes the total of the invoice from subtotal and tax
ConvertedInvoiceRecomputed(q, number, today) ==
    [ invoice_number |-> number, contact_id |-> q.contact_id, items |-> q.items,
      subtotal |-> q.subtotal, tax_rate |-> q.tax_rate, tax |-> q.tax,
      total |-> q.subtotal + q.tax,
      status |-> "pending", due_date |-> today + DEPOSIT_DUE_DAYS,
      paid_at |-> NULL, payment_method |-> "none" ]

\* convert_quote: the Invoice(...) built from the quote
ConvertedInvoice(q, number, today) ==
    [ invoice_number |-> number, contact_id |-> q.contact_id, items |-> q.items,
      subtotal |-> q.subtotal, tax_rate |-> q.tax_rate, tax |-> q.tax, total |-> q.total,
      status |-> "pending", due_date |-> today + DEPOSIT_DUE_DAYS,
      paid_at |-> NULL, payment_method |-> "none" ]

\* mark_invoice_paid: the Invoice(...) of the next billing period
NextInvoice(inv, number, today) ==
    [ invoice_number |-> number, contact_id |-> inv.contact_id, items |-> inv.items,
      subtotal |-> inv.subtotal, tax_rate |-> inv.tax_rate, tax |-> inv.tax,
      total |-> inv.total,
      status |-> "pending", due_date |-> today + NEXT_DUE_DAYS,
      paid_at |-> NULL, payment_method |-> "none" ]

\* INSERT of an invoice row: the unique index on invoice_number refuses a duplicate
CanInsert(s, inv) == inv.invoice_number \notin Numbers(s)

\* Room for one more invoice row, and for its id
Room(s) == Cardinality(DOMAIN s.invoices) < MaxInvoices /\ s.ni < MaxInvoiceIds

AddInvoice(s, inv) == [ s EXCEPT !.invoices = Insert(@, s.ni + 1, inv), !.ni = s.ni + 1 ]

create_invoice(Items, Rates) ==
    /\ Idle
    /\ Room(db)
    /\ \E contact \in 1..MaxContacts, items \in Items, tax_rate \in Rates :
          LET inv == NewInvoice(generate_invoice_number(db), contact, items,
                                tax_rate, now + 30)
          IN  /\ req' = Request("create_invoice", db.ni + 1, NoMethod)
              /\ IF /\ contact \in DOMAIN db.contacts
                    /\ ~model_dump_raises(items)
                    /\ CanInsert(db, inv)
                 THEN sess' = AddInvoice(db, inv) /\ pc' = "return"
                 ELSE sess' = db /\ pc' = "raise"
    /\ sent' = {}
    /\ UNCHANGED <<db, now>>

\* update_invoice: the fields of the request are set, then calculate_totals() runs
UpdatedInvoice(inv, fields, items, tax_rate, status) ==
    calculate_totals(
      [ inv EXCEPT !.items = IF "items" \in fields THEN items ELSE @,
                   !.tax_rate = IF "tax_rate" \in fields THEN tax_rate ELSE @,
                   !.status = IF "status" \in fields THEN status ELSE @ ])

update_invoice(Fields, Items, Rates, Statuses) ==
    /\ Idle
    /\ \E id \in DOMAIN db.invoices, fields \in SUBSET Fields :
       \E items \in IF "items" \in fields THEN Items ELSE { << >> },
          tax_rate \in IF "tax_rate" \in fields THEN Rates ELSE {0},
          status \in IF "status" \in fields THEN Statuses ELSE {"pending"} :
          /\ req' = Request("update_invoice", id, NoMethod)
          /\ IF "items" \in fields /\ model_dump_raises(items)
             THEN sess' = db /\ pc' = "raise"
             ELSE /\ sess' = [db EXCEPT !.invoices[id] =
                                  UpdatedInvoice(@, fields, items, tax_rate, status)]
                  /\ pc' = "return"
    /\ sent' = {}
    /\ UNCHANGED <<db, now>>

delete_invoice ==
    /\ Idle
    /\ \E id \in DOMAIN db.invoices :
          /\ req' = Request("delete_invoice", id, NoMethod)
          /\ sess' = [db EXCEPT !.invoices = Delete(@, {id})]
    /\ pc' = "return"
    /\ sent' = {}
    /\ UNCHANGED <<db, now>>

\* A payment that is flushed but not committed before the notification
paid_flush_only(d, s) == d

\* mark_invoice_paid, up to its first commit: what is committed once
\* "await db.commit()" has returned
paid_commit(d, s) == s

mark_invoice_paid(Methods) ==
    /\ Idle
    /\ Room(db)
    /\ \E id \in DOMAIN db.invoices, method \in Methods :
          /\ req' = Request("mark_paid", id, method)
          /\ sess' = [db EXCEPT !.invoices[id] = mark_as_paid(@, method, now)]
          /\ db' = paid_commit(db, sess')
    /\ pc' = "paid"
    /\ sent' = {}
    /\ UNCHANGED now

\* mark_invoice_paid: the payment notification, inside try/except
mark_invoice_paid_notify ==
    /\ pc = "paid"
    /\ \E out \in Notify("payment", req.id) :
          /\ sent' = sent \cup out
          /\ pc' = after_notification(out, "notified")
    /\ UNCHANGED <<db, sess, req, now>>

\* mark_invoice_paid: next period's invoice, its commit, and its notification
mark_invoice_paid_next ==
    /\ pc = "notified"
    /\ LET inv  == sess.invoices[req.id]
           next == NextInvoice(inv, generate_invoice_number(sess), req.today)
       IN  IF CanInsert(sess, next)
           THEN /\ sess' = AddInvoice(sess, next)
                /\ db' = sess'
                /\ \E out \in Notify("new_invoice", sess.ni + 1) :
                      /\ sent' = sent \cup out
                      /\ pc' = after_notification(out, "return")
           ELSE /\ UNCHANGED <<db, sess, sent>>
                /\ pc' = "raise"
    /\ UNCHANGED <<req, now>>

\* ------------------------------------------------------------------ conversion

\* convert_quote up to its flush: invoice added, contact updated, quote deleted
ConvertedSession(s, id, today) ==
    LET q   == s.quotes[id]
        inv == ConvertedInvoice(q, dated_invoice_number(s, today), today)
        c   == [ s EXCEPT !.contacts =
                     [ k \in DOMAIN @ |-> IF k = q.contact_id
                                          THEN [@[k] EXCEPT !.status = "CONVERTED"]
                                          ELSE @[k] ],
                   !.quotes = Delete(@, {id}) ]
    IN  IF CanInsert(s, inv) THEN AddInvoice(c, inv) ELSE c

\* A conversion that commits where the handler flushes
convert_committed(d, s) == s

\* What is committed while convert_quote runs, before any commit of its own
convert_uncommitted(d, s) == d

convert_quote ==
    /\ Idle
    /\ Room(db)
    /\ \E id \in DOMAIN db.quotes :
          /\ req' = Request("convert", id, NoMethod)
          /\ sess' = ConvertedSession(db, id, now)
          /\ db' = convert_uncommitted(db, sess')
          /\ pc' = IF sess'.ni = db.ni THEN "raise" ELSE "flushed"
    /\ sent' = {}
    /\ UNCHANGED now

\* convert_quote: a statement between the flush and the notification raises
convert_quote_error ==
    /\ pc = "flushed"
    /\ pc' = "raise"
    /\ UNCHANGED <<db, sess, req, sent, now>>

\* convert_quote: the notification; with a Notion page id the handler commits itself
convert_quote_notify ==
    /\ pc = "flushed"
    /\ sent' \in Notify("conversion", sess.ni)
    /\ \E notion_id \in BOOLEAN : db' = IF notion_id THEN sess ELSE db
    /\ pc' = after_notification(sent', "return")
    /\ UNCHANGED <<sess, req, now>>

Tick ==
    /\ Idle
    /\ \E d \in DaySteps : now + d <= MaxDay /\ now' = now + d
    /\ UNCHANGED <<db, sess, pc, req, sent>>

Init ==
    /\ db = EmptyDb
    /\ sess = EmptyDb
    /\ pc = "idle"
    /\ req = NoReq
    /\ sent = {}
    /\ now = 0

\* Every handler, with every input of the request sets
Next ==
    \/ create_contact
    \/ create_quote(QuoteItemChoices, DiscountChoices, TaxChoices)
    \/ update_quote({"items", "discount", "tax", "status", "valid_until"},
                    QuoteItemChoices, DiscountChoices, TaxChoices, ValidUntilOffsets)
    \/ send_quote
    \/ delete_quote
    \/ reject_quote
    \/ delete_contact
    \/ process_quote_reminders
    \/ create_invoice(InvoiceItemChoices, TaxRateChoices)
    \/ update_invoice({"items", "tax_rate", "status"}, UpdateItemChoices, TaxRateChoices,
                      InvoiceStatus)
    \/ delete_invoice
    \/ mark_invoice_paid(PaymentMethods)
    \/ mark_invoice_paid_notify
    \/ mark_invoice_paid_next
    \/ convert_quote
    \/ convert_quote_error
    \/ convert_quote_notify
    \/ get_db_commit
    \/ get_db_rollback
    \/ Tick

Spec == Init /\ [][Next]_vars

\* Payment: invoices come from the conversion of quotes of one price list, on one
\* day; update_invoice makes them OVERDUE or CANCELLED, mark_invoice_paid PAID
NextMarkPaid ==
    \/ create_contact
    \/ create_quote(LifeItemChoices, {0}, {0})
    \/ convert_quote
    \/ convert_quote_error
    \/ convert_quote_notify
    \/ create_invoice(InvoiceItemChoices, TaxRateChoices)
    \/ update_invoice({"status"}, UpdateItemChoices, TaxRateChoices,
                      {"overdue", "cancelled"})
    \/ delete_invoice
    \/ mark_invoice_paid(PaymentMethods)
    \/ mark_invoice_paid_notify
    \/ mark_invoice_paid_next
    \/ get_db_commit
    \/ get_db_rollback

SpecMarkPaid == Init /\ [][NextMarkPaid]_vars

\* The life of a quote: one price list, no discount, no tax
NextQuoteLife ==
    \/ create_contact
    \/ create_quote(LifeItemChoices, {0}, {0})
    \/ update_quote({"status"}, LifeItemChoices, {0}, {0}, {0})
    \/ send_quote
    \/ delete_quote
    \/ process_quote_reminders
    \/ get_db_commit
    \/ get_db_rollback
    \/ Tick

SpecQuoteLife == Init /\ [][NextQuoteLife]_vars

\* The amounts of a quote: every price list, discount and tax, no change of status
NextQuoteTotals ==
    \/ create_contact
    \/ create_quote(QuoteItemChoices, DiscountChoices, TaxChoices)
    \/ update_quote({"items", "discount", "tax"},
                    QuoteItemChoices, DiscountChoices, TaxChoices, {0})
    \/ get_db_commit
    \/ get_db_rollback

SpecQuoteTotals == Init /\ [][NextQuoteTotals]_vars

\* Conversion of quotes of every amount, draft or sent
NextConvert ==
    \/ create_contact
    \/ create_quote(QuoteItemChoices, DiscountChoices, TaxChoices)
    \/ send_quote
    \/ convert_quote
    \/ convert_quote_error
    \/ convert_quote_notify
    \/ delete_invoice
    \/ get_db_commit
    \/ get_db_rollback
    \/ Tick

SpecConvert == Init /\ [][NextConvert]_vars

\* The amounts of an invoice, whichever handler created it; prices in whole cents
NextInvoiceTotals ==
    \/ create_contact
    \/ create_quote(LifeItemChoices, DiscountChoices, TaxChoices)
    \/ convert_quote
    \/ convert_quote_error
    \/ convert_quote_notify
    \/ create_invoice(InvoiceItemChoices, TaxRateChoices)
    \/ mark_invoice_paid({"wire"})
    \/ mark_invoice_paid_notify
    \/ mark_invoice_paid_next
    \/ get_db_commit
    \/ get_db_rollback

SpecInvoiceTotals == Init /\ [][NextInvoiceTotals]_vars

\* Removal of contacts: by reject_quote and by delete_contact, of contacts with and
\* without quotes and invoices
NextContactDeletion ==
    \/ create_contact
    \/ create_quote(LifeItemChoices, {0}, {0})
    \/ send_quote
    \/ convert_quote
    \/ convert_quote_error
    \/ convert_quote_notify
    \/ reject_quote
    \/ delete_contact
    \/ delete_quote
    \/ delete_invoice
    \/ get_db_commit
    \/ get_db_rollback
    \/ Tick

SpecContactDeletion == Init /\ [][NextContactDeletion]_vars

\* The sweep over quotes that are DRAFT, SENT or EXPIRED, of every validity date,
\* reminded of or not
NextSweep ==
    \/ create_contact
    \/ create_quote(LifeItemChoices, {0}, {0})
    \/ update_quote({"valid_until"}, LifeItemChoices, {0}, {0}, ValidUntilOffsets)
    \/ send_quote
    \/ process_quote_reminders
    \/ get_db_commit
    \/ get_db_rollback

SpecSweep == Init /\ [][NextSweep]_vars

\* ---------------------------------------------------- concurrent requests

\* Requests in flight at once, each with its own session
NProcs == 2

Procs == 1..NProcs

\* A database in which n quotes have been converted, one after the other on day 0,
\* and n more have been created and sent since: n PENDING invoices, n SENT quotes
RECURSIVE ConvertedDb(_)
ConvertedDb(n) ==
    IF n = 0
    THEN [EmptyDb EXCEPT !.contacts = Insert(@, 1, [status |-> "NEW"]), !.nc = 1]
    ELSE LET d == ConvertedDb(n - 1)
             q == SentQuote(NewQuote(1, << [quantity |-> 1, unit_price |-> 200 * Cent] >>,
                                     0, 0, 1), 0)
         IN  ConvertedSession([d EXCEPT !.quotes = Insert(@, d.nq + 1, q),
                                        !.nq = d.nq + 1], d.nq + 1, 0)

RECURSIVE WithSentQuotes(_, _)
WithSentQuotes(d, n) ==
    IF n = 0 THEN d
    ELSE LET e == WithSentQuotes(d, n - 1)
             q == SentQuote(NewQuote(1, << [quantity |-> 1, unit_price |-> 200 * Cent] >>,
                                     0, 0, 1), 0)
         IN  [e EXCEPT !.quotes = Insert(@, e.nq + 1, q), !.nq = e.nq + 1,
                       !.contacts[1].status = "quoted"]

NoCall == [ op |-> "none", id |-> 0, number |-> SeqNumber(0) ]

\* The documents other requests in flight are working on
Busy(p) == { <<req[o].op, req[o].id>> : o \in Procs \ {p} }

InitConcurrent ==
    /\ db = WithSentQuotes(ConvertedDb(NProcs), NProcs)
    /\ sess = db
    /\ pc = [p \in Procs |-> "idle"]
    /\ req = [p \in Procs |-> NoCall]
    /\ sent = {}
    /\ now = 0

\* mark_invoice_paid of request p: mark_as_paid and the first commit
concurrent_mark_paid_commit(p) ==
    /\ pc[p] = "idle"
    /\ \E id \in DOMAIN db.invoices :
          /\ <<"mark_paid", id>> \notin Busy(p)
          /\ db.invoices[id].status = "pending"
          /\ req' = [req EXCEPT ![p] = [op |-> "mark_paid", id |-> id, number |-> SeqNumber(0)]]
          /\ db' = [db EXCEPT !.invoices[id] = mark_as_paid(@, "wire", now)]
    /\ sess' = db'
    /\ pc' = [pc EXCEPT ![p] = "paid"]
    /\ UNCHANGED <<sent, now>>

\* mark_invoice_paid of request p: generate_invoice_number reads the committed rows
concurrent_mark_paid_number(p) ==
    /\ pc[p] = "paid"
    /\ req' = [req EXCEPT ![p].number = generate_invoice_number(db)]
    /\ pc' = [pc EXCEPT ![p] = "numbered"]
    /\ UNCHANGED <<db, sess, sent, now>>

\* convert_quote of request p: the quote is read and today's invoices are counted
concurrent_convert_number(p) ==
    /\ pc[p] = "idle"
    /\ \E id \in DOMAIN db.quotes :
          /\ <<"convert", id>> \notin Busy(p)
          /\ req' = [req EXCEPT ![p] = [op |-> "convert", id |-> id,
                                        number |-> dated_invoice_number(db, now)]]
    /\ pc' = [pc EXCEPT ![p] = "numbered"]
    /\ UNCHANGED <<db, sess, sent, now>>

\* create_invoice of request p: generate_invoice_number, then model_dump on the items
concurrent_create_invoice(p) ==
    /\ pc[p] = "idle"
    /\ \E items \in InvoiceItemChoices :
          /\ req' = [req EXCEPT ![p] = [op |-> "create_invoice", id |-> 0,
                                        number |-> generate_invoice_number(db)]]
          /\ pc' = [pc EXCEPT ![p] = IF model_dump_raises(items)
                                     THEN "attribute_error" ELSE "numbered"]
    /\ UNCHANGED <<db, sess, sent, now>>

\* The INSERT of request p and its commit: the unique index on invoice_number lets
\* the first of two equal numbers in and fails the second with IntegrityError
concurrent_insert(p) ==
    /\ pc[p] = "numbered"
    /\ LET inv == IF req[p].op = "convert"
                  THEN ConvertedInvoice(db.quotes[req[p].id], req[p].number, now)
                  ELSE NextInvoice(db.invoices[req[p].id], req[p].number, now)
       IN  IF CanInsert(db, inv)
           THEN /\ db' = IF req[p].op = "convert"
                         THEN AddInvoice(
                                [db EXCEPT !.quotes = Delete(@, {req[p].id}),
                                           !.contacts[inv.contact_id].status = "CONVERTED"],
                                inv)
                         ELSE AddInvoice(db, inv)
                /\ pc' = [pc EXCEPT ![p] = "done"]
           ELSE /\ db' = db
                /\ pc' = [pc EXCEPT ![p] = "integrity_error"]
    /\ sess' = db'
    /\ UNCHANGED <<req, sent, now>>

NextConcurrent ==
    \E p \in Procs :
        \/ concurrent_mark_paid_commit(p)
        \/ concurrent_mark_paid_number(p)
        \/ concurrent_convert_number(p)
        \/ concurrent_create_invoice(p)
        \/ concurrent_insert(p)

SpecConcurrent == InitConcurrent /\ [][NextConcurrent]_vars

\* ------------------------------------------------------- signing requests

NoLink ==
    [ op |-> "none", path |-> << >>, valid_for |-> 0, t0 |-> 0,
      query |-> [ expires |-> <<"0">>, signature |-> hmac_sha256("", << >>) ],
      t |-> 0, valid |-> FALSE,
      presented |-> [ path |-> << >>,
                      query |-> [ expires |-> <<"0">>, signature |-> hmac_sha256("", << >>) ] ],
      response |-> 0 ]

InitSigning ==
    /\ db = EmptyDb
    /\ sess = EmptyDb
    /\ pc = "idle"
    /\ req = NoLink
    /\ sent = {}
    /\ now = 0

\* A lifecycle transition signs a path at the current clock reading
sign_link ==
    /\ pc = "idle"
    /\ \E path \in SignedPaths, minutes \in ValidForMinutes :
          req' = [ NoLink EXCEPT !.op = "sign", !.path = path, !.valid_for = minutes,
                                 !.t0 = now,
                                 !.query = create_signed_query_params(path, minutes, now) ]
    /\ pc' = "signed"
    /\ UNCHANGED <<db, sess, sent, now>>

\* A public download endpoint parses the query string and verifies it for its path
verify_link ==
    /\ pc = "signed"
    /\ req' = [ req EXCEPT !.op = "verify", !.t = now,
                           !.valid = verify_url_signature(req.path, ParseInt(req.query.expires),
                                                          req.query.signature, now) ]
    /\ pc' = "verified"
    /\ UNCHANGED <<db, sess, sent, now>>

\* The clock moves on; a verified request has been answered
ClockTick ==
    /\ now < MaxSeconds * TicksPerSecond
    /\ now' = now + 1
    /\ pc' = IF pc = "verified" THEN "signed" ELSE pc
    /\ req' = IF pc = "verified" THEN [ req EXCEPT !.op = "sign", !.t = 0, !.valid = FALSE ]
              ELSE req
    /\ UNCHANGED <<db, sess, sent>>

NextSigning ==
    \/ sign_link
    \/ verify_link
    \/ ClockTick

SpecSigning == InitSigning /\ [][NextSigning]_vars

\* ------------------------------------------------------------ public downloads
\* api/routes/public.py: the three endpoints that serve a PDF to a signed link

\* A signature parameter that holds a character outside ASCII
NonAsciiSignature == hmac_sha256("", <<"non-ascii">>)

\* hmac.compare_digest raises TypeError on a str with a non-ASCII character
compare_digest_raises(a, b) == a = NonAsciiSignature \/ b = NonAsciiSignature

\* verify_url_signature raises what compare_digest raises, once past the expiry test
verify_url_signature_raises(path, expires, signature, clock) ==
    /\ ~(Timestamp(clock) > expires)
    /\ compare_digest_raises(signature, hmac_sha256(secret_key, Message(path, expires)))

\* The rows the endpoint selects its document from
Documents(d, kind) == IF kind = "quote" THEN d.quotes ELSE d.invoices

\* "quote.items_json or quote.items or []": Quote has no attribute items
items_raises(d, kind, id) == kind = "quote" /\ d.quotes[id].items = << >>

\* HTTP status codes of the responses
HTTP_OK == 200

HTTP_FORBIDDEN == 403

HTTP_NOT_FOUND == 404

HTTP_UNPROCESSABLE == 422

HTTP_SERVER_ERROR == 500

\* download_quote_pdf, download_invoice_pdf, download_receipt_pdf: the status of the
\* response to GET <PublicPath(kind, id)>?<query>; query is << >> when the URL has none
download_pdf(d, kind, id, query, clock) ==
    IF query = << >> THEN HTTP_UNPROCESSABLE
    ELSE LET path      == PublicPath(kind, id)
             expires   == ParseInt(query[1].expires)
             signature == query[1].signature
         IN  IF verify_url_signature_raises(path, expires, signature, clock)
             THEN HTTP_SERVER_ERROR
             ELSE IF ~verify_url_signature(path, expires, signature, clock)
             THEN HTTP_FORBIDDEN
             ELSE IF id \notin DOMAIN Documents(d, kind) THEN HTTP_NOT_FOUND
             ELSE IF items_raises(d, kind, id) THEN HTTP_SERVER_ERROR
             ELSE HTTP_OK

\* The ids a request may name: those of the documents and one of no document
DocumentIds == 1..2

\* What a client may put in place of the signed expires: the same, or a minute more
ExpiresEdits == {0, SecondsPerMinute}

\* What a client may put in place of the signature: the signed one, the digest under
\* another key, or a string with a non-ASCII character
PresentedSignatures(signed) ==
    { signed, hmac_sha256("other_key", signed.message), NonAsciiSignature }

ClockSteps == { (SecondsPerMinute \div 2) * TicksPerSecond }

InitDownload ==
    /\ db = WithSentQuotes(ConvertedDb(1), 1)
    /\ sess = db
    /\ pc = "idle"
    /\ req = NoLink
    /\ sent = {}
    /\ now = 0

\* A client requests a PDF with the signed query string, as it is or edited
download_request ==
    /\ pc = "signed"
    /\ \E kind \in DocumentKinds, id \in DocumentIds, edit \in ExpiresEdits,
          signature \in PresentedSignatures(req.query.signature) :
          LET query == [ expires |-> Decimal(ParseInt(req.query.expires) + edit),
                         signature |-> signature ]
          IN  req' = [ req EXCEPT !.op = "download", !.t = now,
                                  !.presented = [ path |-> PublicPath(kind, id),
                                                  query |-> query ],
                                  !.response = download_pdf(db, kind, id, <<query>>, now) ]
    /\ pc' = "downloaded"
    /\ UNCHANGED <<db, sess, sent, now>>

\* The clock moves on by half a minute; a request has been answered
ClockJump ==
    /\ \E step \in ClockSteps :
          /\ now + step <= MaxSeconds * TicksPerSecond
          /\ now' = now + step
    /\ pc' = IF pc = "downloaded" THEN "signed" ELSE pc
    /\ req' = IF pc = "downloaded"
              THEN [ req EXCEPT !.op = "sign", !.t = 0, !.presented = NoLink.presented,
                                !.response = 0 ]
              ELSE req
    /\ UNCHANGED <<db, sess, sent>>

NextDownload ==
    \/ sign_link
    \/ download_request
    \/ ClockJump

SpecDownload == InitDownload /\ [][NextDownload]_vars

\* ------------------------------------------------------- links of notifications

\* The receiver of a notification follows its link: a download request of its own,
\* which reads the committed rows
follow_link ==
    /\ \E n \in sent :
          LET response == download_pdf(db, LinkedDocument[n.kind], n.id, n.link.query,
                                       UnixClock(now))
          IN  req' = [ req EXCEPT !.download =
                           [ kind |-> LinkedDocument[n.kind], id |-> n.id, link |-> n.link,
                             response |-> response, served |-> response = HTTP_OK ] ]
    /\ UNCHANGED <<db, sess, pc, sent, now>>

\* The receiver follows the link it holds once more, between two requests
follow_held_link ==
    /\ Idle
    /\ req.download # NoDownload
    /\ LET response == download_pdf(db, req.download.kind, req.download.id,
                                    req.download.link.query, UnixClock(now))
       IN  req' = [ req EXCEPT !.download.response = response,
                               !.download.served = @ \/ response = HTTP_OK ]
    /\ UNCHANGED <<db, sess, pc, sent, now>>

\* Sending, conversion and payment, each with its notifications and their links
NextLinks ==
    \/ create_contact
    \/ create_quote(LifeItemChoices, {0}, {0})
    \/ send_quote
    \/ convert_quote
    \/ convert_quote_error
    \/ convert_quote_notify
    \/ mark_invoice_paid({"wire"})
    \/ mark_invoice_paid_notify
    \/ mark_invoice_paid_next
    \/ follow_link
    \/ get_db_commit
    \/ get_db_rollback
    \/ Tick

SpecLinks == Init /\ [][NextLinks]_vars

\* What update_quote may set the items to: none, or one
RevisedItemChoices == { << >> } \cup LifeItemChoices

\* What update_quote may set valid_until to: yesterday, or nine days from today
RevisedValidUntilOffsets == {0 - 1, 9}

\* A quote PDF link and everything that can happen to its quote afterwards
NextRevocation ==
    \/ create_contact
    \/ create_quote(LifeItemChoices, {0}, {0})
    \/ send_quote
    \/ update_quote({"items", "valid_until"}, RevisedItemChoices, {0}, {0},
                    RevisedValidUntilOffsets)
    \/ process_quote_reminders
    \/ reject_quote
    \/ delete_quote
    \/ convert_quote
    \/ convert_quote_error
    \/ convert_quote_notify
    \/ follow_link
    \/ follow_held_link
    \/ get_db_commit
    \/ get_db_rollback
    \/ Tick

SpecRevocation == Init /\ [][NextRevocation]_vars

\* Invoices of quotes with a discount or a flat tax, updated without items: with no
\* field but notes or due_date, or with a status
NextInvoiceUpdate ==
    \/ create_contact
    \/ create_quote(LifeItemChoices, DiscountChoices, TaxChoices)
    \/ convert_quote
    \/ convert_quote_error
    \/ convert_quote_notify
    \/ update_invoice({"status"}, UpdateItemChoices, TaxRateChoices, {"overdue", "cancelled"})
    \/ get_db_commit
    \/ get_db_rollback
    \/ Tick

SpecInvoiceUpdate == Init /\ [][NextInvoiceUpdate]_vars

\* ------------------------------------------------------------------ daily sweep

MaxSweepDay == 17

\* Midnight, under a scheduler that runs the sweep every day: the day ends once
\* process_quote_reminders has run on it and its session is committed
NextDay ==
    /\ Done("sweep")
    /\ req.today = now
    /\ now < MaxSweepDay
    /\ now' = now + 1
    /\ UNCHANGED <<db, sess, pc, req, sent>>

\* A contact and the quote that has just been sent to it
InitDailySweep ==
    /\ db = WithSentQuotes(ConvertedDb(0), 1)
    /\ sess = db
    /\ pc = "idle"
    /\ req = NoReq
    /\ sent = {}
    /\ now = 0

NextDailySweep ==
    \/ send_quote
    \/ delete_quote
    \/ process_quote_reminders
    \/ get_db_commit
    \/ get_db_rollback
    \/ NextDay

\* The scheduler calls the sweep again and again, every request ends, the commit of a
\* sweep that is tried again and again succeeds, and the days pass
SpecDailySweep ==
    /\ InitDailySweep
    /\ [][NextDailySweep]_vars
    /\ SF_vars(process_quote_reminders)
    /\ WF_vars(get_db_commit \/ get_db_rollback)
    /\ SF_vars(req.op = "sweep" /\ get_db_commit)
    /\ SF_vars(NextDay)

\* ------------------------------------------------------------ contact pipeline

\* The operations that set a contact's status, with a quote for a client that has
\* converted one before
NextPipeline ==
    \/ create_contact
    \/ create_quote_among(LifeItemChoices, {0}, {0}, MaxQuotes + 1)
    \/ send_quote
    \/ convert_quote
    \/ convert_quote_error
    \/ convert_quote_notify
    \/ process_quote_reminders
    \/ get_db_commit
    \/ get_db_rollback
    \/ Tick

SpecPipeline == Init /\ [][NextPipeline]_vars

\* ------------------------------------------- concurrent conversions of a quote

\* convert_quote of a request that has not started
NoConversion ==
    [ op |-> "none", id |-> 0, quote |-> NULL, number |-> SeqNumber(0),
      contact_status |-> NULL, deleted |-> FALSE ]

\* The quotes that exist when the requests arrive, all SENT to contact 1
RaceDb == WithSentQuotes(ConvertedDb(0), NProcs)

InitConvertRace ==
    /\ db = RaceDb
    /\ sess = db
    /\ pc = [p \in Procs |-> "idle"]
    /\ req = [p \in Procs |-> NoConversion]
    /\ sent = {}
    /\ now = 0

\* Requests other than p whose transaction holds the row lock of quote id: they have
\* deleted the row and have neither committed nor rolled back
QuoteLockedByOther(p, id) ==
    \E o \in Procs \ {p} :
        pc[o] \in {"deleted", "flushed"} /\ req[o].id = id /\ req[o].deleted

\* Requests other than p with a flush that is not committed: it holds the row lock of
\* the contact it updated and the index entry of the number it inserted
FlushedOthers(p) == { o \in Procs \ {p} : pc[o] = "flushed" }

\* convert_quote of request p: select(Quote).where(Quote.id == quote_id)
race_convert_read(p) ==
    /\ pc[p] = "idle"
    /\ \E id \in DOMAIN db.quotes :
          req' = [req EXCEPT ![p] = [NoConversion EXCEPT !.op = "convert", !.id = id,
                                                         !.quote = db.quotes[id]]]
    /\ pc' = [pc EXCEPT ![p] = "read"]
    /\ UNCHANGED <<db, sess, sent, now>>

\* convert_quote of request p: today's committed invoices are counted
race_convert_count(p) ==
    /\ pc[p] = "read"
    /\ req' = [req EXCEPT ![p].number = dated_invoice_number(db, now)]
    /\ pc' = [pc EXCEPT ![p] = "numbered"]
    /\ UNCHANGED <<db, sess, sent, now>>

\* convert_quote of request p: select(Contact), contact.status = CONVERTED in memory
race_convert_contact(p) ==
    /\ pc[p] = "numbered"
    /\ req' = [req EXCEPT ![p].contact_status = db.contacts[req[p].quote.contact_id].status]
    /\ pc' = [pc EXCEPT ![p] = "contact"]
    /\ UNCHANGED <<db, sess, sent, now>>

\* convert_quote of request p: sql_delete(Quote).where(Quote.id == quote_id). The
\* statement waits for a transaction that has deleted the row; when that one has
\* committed it finds no row, deletes nothing and raises nothing
race_convert_delete(p) ==
    /\ pc[p] = "contact"
    /\ ~QuoteLockedByOther(p, req[p].id)
    /\ req' = [req EXCEPT ![p].deleted = req[p].id \in DOMAIN db.quotes]
    /\ pc' = [pc EXCEPT ![p] = "deleted"]
    /\ UNCHANGED <<db, sess, sent, now>>

\* convert_quote of request p: db.flush() updates the contact and inserts the invoice,
\* waiting for an uncommitted update of the contact and for an uncommitted insert of
\* the same number; a committed row with the number is an IntegrityError. Then the
\* notification of the conversion goes out, or fails
race_convert_flush(p) ==
    /\ pc[p] = "deleted"
    /\ \A o \in FlushedOthers(p) :
          /\ req[o].number # req[p].number
          /\ ~(req[p].contact_status # "CONVERTED" /\ req[o].contact_status # "CONVERTED")
    /\ IF req[p].number \in Numbers(db)
       THEN /\ pc' = [pc EXCEPT ![p] = "integrity_error"]
            /\ sent' = sent
       ELSE /\ pc' = [pc EXCEPT ![p] = "flushed"]
            /\ \E out \in Notify("conversion", db.ni + 1) : sent' = sent \cup out
    /\ UNCHANGED <<db, sess, req, now>>

\* get_db of request p commits: the invoice, the contact's status and the deletion
race_convert_commit(p) ==
    /\ pc[p] = "flushed"
    /\ db' = AddInvoice(
               [db EXCEPT !.quotes = Delete(@, IF req[p].deleted THEN {req[p].id} ELSE {}),
                          !.contacts[req[p].quote.contact_id].status = "CONVERTED"],
               ConvertedInvoice(req[p].quote, req[p].number, now))
    /\ sess' = db'
    /\ pc' = [pc EXCEPT ![p] = "done"]
    /\ UNCHANGED <<req, sent, now>>

\* get_db of request p: the commit fails and the transaction is rolled back
race_convert_rollback(p) ==
    /\ pc[p] = "flushed"
    /\ pc' = [pc EXCEPT ![p] = "failed"]
    /\ UNCHANGED <<db, sess, req, sent, now>>

NextConvertRace ==
    \E p \in Procs :
        \/ race_convert_read(p)
        \/ race_convert_count(p)
        \/ race_convert_contact(p)
        \/ race_convert_delete(p)
        \/ race_convert_flush(p)
        \/ race_convert_commit(p)
        \/ race_convert_rollback(p)

SpecConvertRace == InitConvertRace /\ [][NextConvertRace]_vars

\* --------------------------------------------------------- status of an invoice

\* Invoices are created, converted from quotes, paid, and given any status by update
NextInvoiceStatus ==
    \/ create_contact
    \/ create_quote(LifeItemChoices, {0}, {0})
    \/ convert_quote
    \/ convert_quote_error
    \/ convert_quote_notify
    \/ create_invoice(InvoiceItemChoices, TaxRateChoices)
    \/ update_invoice({"status"}, UpdateItemChoices, TaxRateChoices, InvoiceStatus)
    \/ mark_invoice_paid(PaymentMethods)
    \/ mark_invoice_paid_notify
    \/ mark_invoice_paid_next
    \/ get_db_commit
    \/ get_db_rollback

SpecInvoiceStatus == Init /\ [][NextInvoiceStatus]_vars

\* ==================================================================== claims

\* The invoices the request in flight (or just ended) has added to the committed rows
NewInvoices == DOMAIN db.invoices \ DOMAIN req.pre.invoices

\* The quote / the invoice the request was about, as it was when the request started
PreQuote == req.pre.quotes[req.id]

PreInvoice == req.pre.invoices[req.id]

C2_ConvertAllOrNothing ==
    /\ Failed("convert") => db = req.pre
    /\ req.op = "convert" => ((req.id \notin DOMAIN db.quotes) <=> (NewInvoices # {}))
    /\ req.op = "convert" /\ NewInvoices = {} => db = req.pre

\* A convert has raised after its flush: the session holds the invoice, the
\* database does not
C2_Witness ==
    /\ pc = "raise"
    /\ req.op = "convert"
    /\ DOMAIN sess.invoices # DOMAIN db.invoices
    /\ req.id \notin DOMAIN sess.quotes
    /\ req.id \in DOMAIN db.quotes

\* C3: every stored quote has total = subtotal - discount + tax.
C3_QuoteTotalConsistent ==
    \A id \in DOMAIN db.quotes :
        db.quotes[id].total = db.quotes[id].subtotal - db.quotes[id].discount + db.quotes[id].tax

C5_MarkPaidPostcondition ==
    Finished("mark_paid") /\ PreInvoice.status \in {"pending", "overdue"} =>
        /\ db.invoices[req.id].status = "paid"
        /\ db.invoices[req.id].paid_at = req.today
        /\ db.invoices[req.id].payment_method = req.method
        /\ Cardinality(NewInvoices) = 1
        /\ \A i \in NewInvoices :
              /\ db.invoices[i].contact_id = PreInvoice.contact_id
              /\ db.invoices[i].items = PreInvoice.items
              /\ db.invoices[i].subtotal = PreInvoice.subtotal
              /\ db.invoices[i].tax = PreInvoice.tax
              /\ db.invoices[i].total = PreInvoice.total
              /\ db.invoices[i].status = "pending"
              /\ db.invoices[i].due_date = req.today + 33
              /\ \A j \in DOMAIN db.invoices \ {i} :
                    db.invoices[j].invoice_number # db.invoices[i].invoice_number

\* C6: a mark_paid on an invoice that is PAID or CANCELLED changes nothing.
C6_MarkPaidRejected ==
    req.op = "mark_paid" /\ PreInvoice.status \in {"paid", "cancelled"} =>
        /\ db = req.pre
        /\ ~Done("mark_paid")

\* C7: whenever a payment notification of mark_paid has gone out, the committed row
\* of the invoice is PAID with its paid_at, and stays so when the request fails later.
C7_PaidCommittedBeforeNotification ==
    (\E n \in sent : n.kind = "payment") =>
        /\ req.op = "mark_paid"
        /\ db.invoices[req.id].status = "paid"
        /\ db.invoices[req.id].paid_at = req.today

\* The notification went out, then the request failed
C7_Witness ==
    /\ Failed("mark_paid")
    /\ \E n \in sent : n.kind = "payment"
    /\ PreInvoice.status = "pending"

\* C8: when mark_paid has ended, either the committed rows are as they were when it
\* started, or the invoice is PAID and its successor is stored.
C8_MarkPaidAllOrNothing ==
    Finished("mark_paid") =>
        \/ db = req.pre
        \/ /\ db.invoices[req.id].status = "paid"
           /\ NewInvoices # {}

\* C9: a send on a quote that is not DRAFT is rejected and leaves status, sent_at,
\* valid_until and reminder_sent as they were.
C9_SendOnlyFromDraft ==
    Finished("send") /\ PreQuote.status # "draft" =>
        /\ ~Done("send")
        /\ db.quotes[req.id].status = PreQuote.status
        /\ db.quotes[req.id].sent_at = PreQuote.sent_at
        /\ db.quotes[req.id].valid_until = PreQuote.valid_until
        /\ db.quotes[req.id].reminder_sent = PreQuote.reminder_sent

\* C10: when send on a DRAFT quote has returned and its session is committed, the
\* quote is SENT, sent_at is the time of the request, valid_until is that day + 15
\* and reminder_sent is false, whatever valid_until and reminder_sent were.
C10_SendPostcondition ==
    Done("send") /\ PreQuote.status = "draft" =>
        /\ db.quotes[req.id].status = "sent"
        /\ db.quotes[req.id].sent_at = req.today
        /\ db.quotes[req.id].valid_until = req.today + 15
        /\ db.quotes[req.id].reminder_sent = FALSE

\* A quote sent, reminded, set back to DRAFT and sent again
C10_Witness ==
    /\ Done("send")
    /\ PreQuote.status = "draft"
    /\ PreQuote.reminder_sent
    /\ PreQuote.valid_until # req.today + 15
    /\ PreQuote.sent_at # req.today

C12_ExpiredAbsorbing ==
    [][ \A id \in DOMAIN db.quotes :
          (db.quotes[id].status = "expired" /\ id \in DOMAIN db'.quotes)
              => db'.quotes[id].status = "expired" ]_vars

\* C13: update_quote never changes the status of a quote: when it has ended, the
\* committed status of the quote is the one it had when the request started.
C13_UpdateKeepsStatus ==
    Finished("update_quote") => db.quotes[req.id].status = PreQuote.status

\* C14: when reject on a quote Q of contact C has ended, neither Q nor C is in the
\* committed state, and no invoice has been added.
C14_RejectRemovesQuoteAndContact ==
    Finished("reject") =>
        /\ req.id \notin DOMAIN db.quotes
        /\ PreQuote.contact_id \notin DOMAIN db.contacts
        /\ NewInvoices = {}

\* The contact a reject or a delete_contact is to remove
DeletedContact == IF req.op = "reject" THEN PreQuote.contact_id ELSE req.id

\* C15: when a deletion of a contact (reject, delete_contact) has ended, the quotes
\* of that contact are gone with it and every invoice that existed before still exists.
C15_ContactDeletionCascade ==
    (Finished("reject") \/ Finished("delete_contact")) =>
        /\ \A q \in DOMAIN db.quotes : db.quotes[q].contact_id # DeletedContact
        /\ \A i \in DOMAIN req.pre.invoices : i \in DOMAIN db.invoices

\* The quotes a sweep of the day of the request has to expire, and to remind of
MustExpire ==
    { id \in DOMAIN req.pre.quotes :
        /\ req.pre.quotes[id].status = "sent"
        /\ req.pre.quotes[id].valid_until < req.today }

MustRemind ==
    { id \in DOMAIN req.pre.quotes :
        /\ req.pre.quotes[id].status = "sent"
        /\ 7 <= req.pre.quotes[id].valid_until - req.today
        /\ req.pre.quotes[id].valid_until - req.today <= 8
        /\ ~req.pre.quotes[id].reminder_sent }

\* C16: when a sweep has returned and is committed, each SENT quote past its
\* valid_until is EXPIRED and otherwise as before, each SENT quote 7 to 8 days from
\* its valid_until and not yet reminded of has reminder_sent = true and is otherwise
\* as before, every other quote is unchanged, and the counts of the response are the
\* numbers of quotes of each kind.
C16_SweepRule ==
    Done("sweep") =>
        /\ DOMAIN db.quotes = DOMAIN req.pre.quotes
        /\ \A id \in DOMAIN req.pre.quotes :
              db.quotes[id] =
                  IF id \in MustExpire
                  THEN [req.pre.quotes[id] EXCEPT !.status = "expired"]
                  ELSE IF id \in MustRemind
                  THEN [req.pre.quotes[id] EXCEPT !.reminder_sent = TRUE]
                  ELSE req.pre.quotes[id]
        /\ req.processed.expired = Cardinality(MustExpire)
        /\ req.processed.reminders_sent = Cardinality(MustRemind)
        /\ db.contacts = req.pre.contacts

\* A sweep has left alone a SENT quote on its last day of validity
C16_Witness ==
    /\ Done("sweep")
    /\ \E id \in DOMAIN req.pre.quotes :
          /\ req.pre.quotes[id].status = "sent"
          /\ req.pre.quotes[id].valid_until = req.today
          /\ db.quotes[id] = req.pre.quotes[id]
    /\ req.processed = NoneProcessed

\* C17: a sweep that runs right after a committed sweep, on the same day, changes no
\* quote and counts no reminder and no expiry.
C17_SweepIdempotent ==
    [][ (Done("sweep") /\ req'.op = "sweep" /\ pc' = "return" /\ now' = now) =>
            /\ sess'.quotes = db.quotes
            /\ req'.processed = NoneProcessed ]_vars

\* A sweep has found nothing to do on a SENT quote that is 7 to 8 days from its
\* valid_until and was reminded of before
C17_Witness ==
    /\ Done("sweep")
    /\ req.processed = NoneProcessed
    /\ db = req.pre
    /\ \E id \in DOMAIN db.quotes :
          /\ db.quotes[id].status = "sent"
          /\ db.quotes[id].reminder_sent
          /\ 7 <= db.quotes[id].valid_until - req.today
          /\ db.quotes[id].valid_until - req.today <= 8

\* C18: no invoice-creating call of concurrent requests fails on the uniqueness of
\* invoice_number, and the calls that have ended with an invoice hold pairwise
\* distinct numbers.
C18_ConcurrentNumbersDistinct ==
    /\ \A p \in Procs : pc[p] # "integrity_error"
    /\ \A p, o \in Procs :
          (p # o /\ pc[p] = "done" /\ pc[o] = "done") => req[p].number # req[o].number

\* C19: the number mark_paid computes for the successor invoice is not the number of
\* an invoice that is stored.
C19_NumberNeverReused ==
    (pc = "notified" /\ req.op = "mark_paid") =>
        generate_invoice_number(sess) \notin Numbers(sess)

\* C20: signature round-trip. The (expires, signature) pair create_signed_query_params
\* makes for a path and a validity at the Unix time t0 has expires = t0 + validity, and
\* verify_url_signature of the same path with that pair returns true at every Unix time
\* t with t0 <= t <= expires and false at every Unix time t > expires.
C20_SignatureRoundTrip ==
    pc = "verified" =>
        LET expires == ParseInt(req.query.expires)
        IN  /\ expires = Timestamp(req.t0) + req.valid_for * SecondsPerMinute
            /\ Timestamp(req.t0) <= Timestamp(req.t)
            /\ Timestamp(req.t) <= expires => req.valid
            /\ Timestamp(req.t) > expires => ~req.valid

\* A link with a validity of a minute is verified in its last second and accepted
C20_Witness ==
    /\ pc = "verified"
    /\ req.valid_for > 0
    /\ Timestamp(req.t) = ParseInt(req.query.expires)
    /\ req.valid

\* C21: a signed link grants access only to the path and expiry it was signed for.
\* Whenever a download request presents a path, an expires value or a signature that
\* differs from the signed ones, verify_url_signature returns false and the endpoint
\* answers 403.
C21_TamperedLinkRefused ==
    (/\ pc = "downloaded"
     /\ \/ req.presented.path # req.path
        \/ ParseInt(req.presented.query.expires) # ParseInt(req.query.expires)
        \/ req.presented.query.signature # req.query.signature)
    => req.response = HTTP_FORBIDDEN

\* C22: every document link a lifecycle transition hands out is a signed link. When
\* the link of a notification of send, convert or mark_paid is followed at the time
\* it was issued, the public download endpoint of its document finds the expires and
\* signature parameters in it and accepts them.
C22_IssuedLinksAreSigned ==
    (req.download.response # 0 /\ req.download.link \in { n.link : n \in sent })
    => /\ req.download.link.query # << >>
       /\ req.download.response \notin {HTTP_UNPROCESSABLE, HTTP_FORBIDDEN}

\* C23: there is no revocation. A quote PDF link that send handed out and that has
\* been served once is served whenever it is followed again at a time up to its
\* expires, whatever has been done to the quote since.
C23_QuoteLinkKeepsWorking ==
    (/\ req.download.kind = "quote"
     /\ req.download.served
     /\ req.download.response # 0
     /\ Timestamp(UnixClock(now)) <= ParseInt(req.download.link.query[1].expires))
    => req.download.response = HTTP_OK

\* The rows send, convert and mark_paid commit, from the request alone
TransitionOutcome(r) ==
    CASE r.op = "send" -> [ r.pre EXCEPT !.quotes[r.id] = SentQuote(@, r.today) ]
      [] r.op = "convert" -> ConvertedSession(r.pre, r.id, r.today)
      [] r.op = "mark_paid" ->
            LET paid == [ r.pre EXCEPT !.invoices[r.id] = mark_as_paid(@, r.method, r.today) ]
            IN  AddInvoice(paid, NextInvoice(paid.invoices[r.id],
                                             generate_invoice_number(paid), r.today))

\* C24: a failure of the notification channel never reverses and never fails a
\* transition. The step of send, convert or mark_paid that makes the notification call
\* goes on to the handler's next statement with the session's rows as they were,
\* whether the notification went out or raised, and the rows a finished send, convert
\* or mark_paid has committed are those the request alone determines.
C24_NotificationFailureHarmless ==
    [][ /\ (Idle /\ req'.op = "send" /\ pc' \notin {"idle", "done", "failed"})
               => pc' = "return" /\ sess' = TransitionOutcome(req')
        /\ (pc = "flushed" /\ sent' # sent) => pc' = "return" /\ sess' = sess
        /\ (pc = "flushed" /\ pc' = "return") => sess' = sess
        /\ (pc = "paid" /\ pc' # "paid") => pc' = "notified" /\ sess' = sess /\ db' = db
        /\ (pc = "notified" /\ sess' # sess) => pc' = "return"
        /\ (pc' = "done" /\ req'.op \in {"send", "convert", "mark_paid"})
               => db' = TransitionOutcome(req')
      ]_vars

\* A payment is marked and its successor invoice committed though both notifications
\* of mark_paid failed
C24_Witness == Done("mark_paid") /\ sent = {}

\* C25: the notifications of send and convert go out only after the owning transaction
\* has committed. Once a send or a convert that has emitted its notification has
\* ended, its state change is committed: the quote is SENT, or the invoice is there,
\* the quote gone and the contact CONVERTED.
C25_NotifiedAfterCommit ==
    (/\ req.op \in {"send", "convert"}
     /\ pc \in {"done", "failed"}
     /\ \E n \in sent : n.kind \in {"quote_sent", "conversion"})
    => db = TransitionOutcome(req)

\* The stages of the sales pipeline, in their order
PipelineStage(status) ==
    CASE status = "NEW" -> 0
      [] status = "CONTACTED" -> 1
      [] status = "QUALIFIED" -> 2
      [] status = "drafting" -> 3
      [] status = "quoted" -> 4
      [] status = "CONVERTED" -> 5
      [] status = "LOST" -> 6

\* C26: the Contact status is a one-way pipeline. No step of create_quote, send,
\* convert or the sweep moves a committed Contact to an earlier stage than it had; a
\* CONVERTED Contact never becomes QUOTED again.
C26_ContactPipelineOneWay ==
    [][ \A c \in DOMAIN db.contacts \cap DOMAIN db'.contacts :
            PipelineStage(db'.contacts[c].status) >= PipelineStage(db.contacts[c].status)
      ]_vars

Expiring == { id \in DOMAIN db.quotes \cap DOMAIN db'.quotes :
                db.quotes[id].status = "sent" /\ db'.quotes[id].status = "expired" }

\* C28: under a sweep that runs every day, a quote that was sent and is not deleted or
\* sent again afterwards becomes EXPIRED; it does so in a sweep run on the 16th day
\* after the send, the first day after valid_until, and a sweep run counts as expired
\* exactly the quotes it takes from SENT to EXPIRED, so each is counted once.
C28_SentQuoteExpires ==
    /\ \A id \in 1..MaxQuotes, t \in 0..(MaxSweepDay - QUOTE_VALID_DAYS - 1) :
          (/\ id \in DOMAIN db.quotes
           /\ db.quotes[id].status = "sent"
           /\ db.quotes[id].sent_at = t)
              ~> (\/ id \notin DOMAIN db.quotes
                  \/ db.quotes[id].sent_at # t
                  \/ db.quotes[id].status = "expired")
    /\ [][ \A id \in Expiring :
              /\ req.op = "sweep"
              /\ now = db.quotes[id].sent_at + QUOTE_VALID_DAYS + 1
              /\ now = db.quotes[id].valid_until + 1 ]_vars
    /\ [][ (req.op = "sweep" /\ pc = "return" /\ pc' = "done")
              => req.processed.expired = Cardinality(Expiring) ]_vars

\* The sweep of the 16th day after the send has expired the quote and counted it
C28_Witness ==
    /\ Done("sweep")
    /\ req.processed.expired = 1
    /\ \E id \in DOMAIN db.quotes :
          /\ db.quotes[id].status = "expired"
          /\ now = db.quotes[id].sent_at + QUOTE_VALID_DAYS + 1

C30_PaidIffPaidAt ==
    \A i \in DOMAIN db.invoices :
        (db.invoices[i].status = "paid") <=> (db.invoices[i].paid_at # NULL)

====
